---- MODULE Spec2Model ----
(***************************************************************************)
(* Pixella chatbot: the session/message store (memory.py) in its two       *)
(* backends, the request throttle of Chatbot.chat (chatbot.py) and the     *)
(* retrieval index (chromadb_rag.py).                                      *)
(*                                                                         *)
(* A session id is a sequence of tokens: <<"a">>, <<"session_", "0">>,     *)
(* <<>> for the empty string.  An optional value (Python None or a value)  *)
(* is a sequence of length 0 or 1.                                         *)
(***************************************************************************)
EXTENDS Integers, Sequences, FiniteSets, TLC

VARIABLES db, fs, now, last,
          last_request_time, clock, pc, current_time, wake_at, started,
          dispatches, outcome, stamped, last_success,
          collection, embeddings, add_rejects_existing, rag_last,
          prompt, turn, rn

vars == <<db, fs, now, last,
          last_request_time, clock, pc, current_time, wake_at, started,
          dispatches, outcome, stamped, last_success,
          collection, embeddings, add_rejects_existing, rag_last,
          prompt, turn, rn>>
memVars  == <<db, fs, now, last>>
chatVars == <<last_request_time, clock, pc, current_time, wake_at, started,
              dispatches, outcome, stamped, last_success>>
ragVars  == <<collection, embeddings, add_rejects_existing, rag_last>>
useVars  == <<prompt, turn, rn>>

----------------------------------------------------------------------------
(* Bounds                                                                  *)

MaxClock == 4        \* number of store operations in one run
TicksPerSecond == 2  \* logical clock readings that fall into one second

None == <<>>
Some(x) == <<x>>

Roles == {"user", "assistant", "document_context"}
Contents == {"hi", "hello"}
SessionIds == {<<"a">>, <<"b">>}
MaxLimit == 3
PositiveLimits == 1..MaxLimit

----------------------------------------------------------------------------
(* memory.py: records                                                      *)

Message(role, content, t) == [role |-> role, content |-> content, timestamp |-> t]

Session(sid, t) ==
    [session_id |-> sid, created_at |-> t, updated_at |-> t, messages |-> <<>>]

\* result of one call on one manager: the manager afterwards and the value returned
Result(m, r) == [st |-> m, ret |-> r]

\* Python truthiness of a string: the empty string is falsy
Truthy(sid) == sid # <<>>

\* str.strip(): drop leading and trailing whitespace tokens
RECURSIVE strip(_)
strip(s) ==
    IF s = <<>> THEN s
    ELSE IF Head(s) = " " THEN strip(Tail(s))
    ELSE IF s[Len(s)] = " " THEN strip(SubSeq(s, 1, Len(s) - 1))
    ELSE s

\* f"session_{datetime.now().strftime('%Y%m%d_%H%M%S')}": one id per clock second
AutoSessionId(t) == <<"session_", ToString(t \div TicksPerSecond)>>

LastN_head(seq, n) ==
    IF n >= Len(seq) THEN seq ELSE SubSeq(seq, 1, n)

\* seq[-n:] for n >= 1
LastN(seq, n) ==
    IF n >= Len(seq) THEN seq ELSE SubSeq(seq, Len(seq) - n + 1, Len(seq))

----------------------------------------------------------------------------
(* memory.py: SQLite backend.  db.sessions is the sessions table (session  *)
(* id -> row), db.messages the messages table in AUTOINCREMENT order,      *)
(* db.current the manager's current_session.                               *)

DbRowsOf(messages, sid) == SelectSeq(messages, LAMBDA r : r.session_id = sid)

DbRowToMessage(r) == [role |-> r.role, content |-> r.content, timestamp |-> r.timestamp]

_get_session_from_db(m, sid) ==
    IF sid \notin DOMAIN m.sessions THEN None
    ELSE LET rows == DbRowsOf(m.messages, sid)
         IN  Some([session_id |-> sid,
                   created_at |-> m.sessions[sid].created_at,
                   updated_at |-> m.sessions[sid].updated_at,
                   messages   |-> [i \in 1..Len(rows) |-> DbRowToMessage(rows[i])]])

\* INSERT OR REPLACE INTO sessions: the messages table is not touched
_save_session_to_db(m, session) ==
    [m EXCEPT !.sessions =
        (session.session_id :> [created_at |-> session.created_at,
                                updated_at |-> session.updated_at]) @@ m.sessions]

\* UPDATE sessions SET updated_at = ? WHERE session_id = ?
DbTouch(sessions, sid, t) ==
    IF sid \in DOMAIN sessions THEN [sessions EXCEPT ![sid].updated_at = t] ELSE sessions

\* INSERT INTO messages, then the updated_at update; no check that the session exists
_add_message_to_db(m, sid, message) ==
    [m EXCEPT !.messages = Append(m.messages,
                                  [session_id |-> sid, role |-> message.role,
                                   content |-> message.content,
                                   timestamp |-> message.timestamp]),
              !.sessions = DbTouch(m.sessions, sid, message.timestamp)]

----------------------------------------------------------------------------
(* memory.py: JSON-file backend.  fs.files maps the id X of every file     *)
(* X.json to the session serialized in it, fs.current is current_session.  *)

_get_session_from_file(m, sid) ==
    IF sid \notin DOMAIN m.files THEN None ELSE Some(m.files[sid])

\* open(f"{session.session_id}.json", 'w'); json.dump(asdict(session))
_save_session_to_file(m, session) ==
    [m EXCEPT !.files = (session.session_id :> session) @@ m.files]

\* Path.glob("session_*.json")
GlobSessionFiles(files) == {sid \in DOMAIN files : Len(sid) >= 1 /\ sid[1] = "session_"}

----------------------------------------------------------------------------
(* memory.py: MemoryManager operations, one operator per backend           *)

get_session_db(m, sid) == _get_session_from_db(m, sid)
get_session_file(m, sid) == _get_session_from_file(m, sid)

NewSessionId(sid_opt, t) == IF sid_opt = None THEN AutoSessionId(t) ELSE sid_opt[1]

create_session_db(m, sid_opt, t) ==
    LET session == Session(NewSessionId(sid_opt, t), t)
    IN  Result([_save_session_to_db(m, session) EXCEPT !.current = Some(session)], session)

create_session_file(m, sid_opt, t) ==
    LET session == Session(NewSessionId(sid_opt, t), t)
    IN  Result([_save_session_to_file(m, session) EXCEPT !.current = Some(session)], session)

SessionFound_skipped(found) == FALSE

\* `if self.get_session(new_session_id)`: a loaded Session object is truthy
SessionFound(found) == found # None

EmptyName_unstripped(sid) == ~Truthy(sid)

\* `not new_session_id or not new_session_id.strip()`; chat() applies the same
\* test to its message
EmptyName(sid) == ~Truthy(sid) \/ ~Truthy(strip(sid))

\* current_session.session_id = new_session_id when it was the renamed session
RenameCurrent(current, old, new) ==
    IF current # None /\ current[1].session_id = old
    THEN Some([current[1] EXCEPT !.session_id = new])
    ELSE current

\* UPDATE sessions SET session_id = new WHERE session_id = old
DbRenameSessions(sessions, old, new) ==
    IF old \in DOMAIN sessions
    THEN (new :> sessions[old]) @@ [x \in (DOMAIN sessions) \ {old} |-> sessions[x]]
    ELSE sessions

\* UPDATE messages SET session_id = new WHERE session_id = old
DbRenameMessages(messages, old, new) ==
    [i \in 1..Len(messages) |->
        IF messages[i].session_id = old
        THEN [messages[i] EXCEPT !.session_id = new] ELSE messages[i]]

rename_session_db_unchecked(m, old, new) ==
    Result([sessions |-> DbRenameSessions(m.sessions, old, new),
            messages |-> DbRenameMessages(m.messages, old, new),
            current  |-> RenameCurrent(m.current, old, new)], TRUE)

rename_session_db(m, old, new) ==
    IF EmptyName(new) THEN Result(m, FALSE)
    ELSE IF SessionFound(get_session_db(m, new)) THEN Result(m, FALSE)
    ELSE IF old \in DOMAIN m.sessions /\ new \in DOMAIN m.sessions
         THEN Result(m, FALSE)   \* primary key conflict raises: `except` returns False
    ELSE Result([sessions |-> DbRenameSessions(m.sessions, old, new),
                 messages |-> DbRenameMessages(m.messages, old, new),
                 current  |-> RenameCurrent(m.current, old, new)], TRUE)

\* rewrite the embedded session_id in old.json, then rename the file to new.json
FileRename(files, old, new) ==
    (new :> [files[old] EXCEPT !.session_id = new])
        @@ [x \in (DOMAIN files) \ {old} |-> files[x]]

rename_session_file(m, old, new) ==
    IF EmptyName(new) THEN Result(m, FALSE)
    ELSE IF SessionFound(get_session_file(m, new)) THEN Result(m, FALSE)
    ELSE IF old \in DOMAIN m.files
         THEN Result([files   |-> FileRename(m.files, old, new),
                      current |-> RenameCurrent(m.current, old, new)], TRUE)
         ELSE Result(m, FALSE)

\* session_id or (self.current_session.session_id if self.current_session else None)
ResolveSessionId(current, sid_opt) ==
    IF sid_opt # None /\ Truthy(sid_opt[1]) THEN sid_opt
    ELSE IF current # None THEN Some(current[1].session_id)
    ELSE None

\* `if not session_id`
NoActiveSession(resolved) == resolved = None \/ ~Truthy(resolved[1])

\* self.current_session.messages.append(message) when the ids match
AppendToCurrent(current, sid, message) ==
    IF current # None /\ current[1].session_id = sid
    THEN Some([current[1] EXCEPT !.messages = Append(@, message)])
    ELSE current

add_message_db(m, role, content, sid_opt, t) ==
    LET resolved == ResolveSessionId(m.current, sid_opt)
        message  == Message(role, content, t)
    IN  IF NoActiveSession(resolved) THEN Result(m, None)
        ELSE LET sid == resolved[1]
                 m1  == _add_message_to_db(m, sid, message)
             IN  Result([m1 EXCEPT !.current = AppendToCurrent(m.current, sid, message)],
                        Some(message))

add_message_file(m, role, content, sid_opt, t) ==
    LET resolved == ResolveSessionId(m.current, sid_opt)
        message  == Message(role, content, t)
    IN  IF NoActiveSession(resolved) THEN Result(m, None)
        ELSE LET sid     == resolved[1]
                 session == get_session_file(m, sid)
                 m1 == IF session # None
                       THEN _save_session_to_file(m,
                                [session[1] EXCEPT !.messages = Append(@, message)])
                       ELSE m
             IN  Result([m1 EXCEPT !.current = AppendToCurrent(m.current, sid, message)],
                        Some(message))

\* [msg for msg in messages if msg.role == "document_context"]
KeepDocumentContext(messages) ==
    SelectSeq(messages, LAMBDA msg : msg.role = "document_context")

ClearCurrent(current, sid) ==
    IF current # None /\ current[1].session_id = sid
    THEN Some([current[1] EXCEPT !.messages = KeepDocumentContext(@)])
    ELSE current

\* DELETE FROM messages WHERE session_id = ?
DbDeleteMessages(messages, sid) == SelectSeq(messages, LAMBDA r : r.session_id # sid)

clear_session_messages_db(m, sid, t) ==
    Result([sessions |-> DbTouch(m.sessions, sid, t),
            messages |-> DbDeleteMessages(m.messages, sid),
            current  |-> ClearCurrent(m.current, sid)], TRUE)

clear_session_messages_file(m, sid, t) ==
    LET session == get_session_file(m, sid)
    IN  IF session # None
        THEN Result([_save_session_to_file(m,
                        [session[1] EXCEPT !.messages = KeepDocumentContext(@)])
                     EXCEPT !.current = ClearCurrent(m.current, sid)], TRUE)
        ELSE Result(m, FALSE)

DropCurrent_never(current, sid) == current

\* `if self.current_session and self.current_session.session_id == session_id`
DropCurrent(current, sid) ==
    IF current # None /\ current[1].session_id = sid THEN None ELSE current

delete_session_db(m, sid) ==
    Result([sessions |-> [x \in (DOMAIN m.sessions) \ {sid} |-> m.sessions[x]],
            messages |-> DbDeleteMessages(m.messages, sid),
            current  |-> DropCurrent(m.current, sid)], TRUE)

delete_session_file_keeping(m, sid) == Result(m, TRUE)

\* unlink f"{session_id}.json" if it exists
delete_session_file(m, sid) ==
    Result([files   |-> [x \in (DOMAIN m.files) \ {sid} |-> m.files[x]],
            current |-> DropCurrent(m.current, sid)], TRUE)

clear_all_db(m) ==
    Result([sessions |-> <<>>, messages |-> <<>>, current |-> None], TRUE)

clear_all_file(m) ==
    Result([files   |-> [x \in (DOMAIN m.files) \ GlobSessionFiles(m.files) |-> m.files[x]],
            current |-> None], TRUE)

\* messages[-limit:] when limit is truthy, then the (role, content) pairs
HistoryPairs(session, limit_opt) ==
    LET messages == IF limit_opt # None /\ limit_opt[1] # 0
                    THEN LastN(session.messages, limit_opt[1])
                    ELSE session.messages
    IN  [i \in 1..Len(messages) |-> <<messages[i].role, messages[i].content>>]

get_conversation_history_db(m, sid_opt, limit_opt) ==
    LET resolved == ResolveSessionId(m.current, sid_opt)
    IN  IF NoActiveSession(resolved) THEN <<>>
        ELSE LET session == get_session_db(m, resolved[1])
             IN  IF session = None THEN <<>> ELSE HistoryPairs(session[1], limit_opt)

get_conversation_history_file(m, sid_opt, limit_opt) ==
    LET resolved == ResolveSessionId(m.current, sid_opt)
    IN  IF NoActiveSession(resolved) THEN <<>>
        ELSE LET session == get_session_file(m, resolved[1])
             IN  IF session = None THEN <<>> ELSE HistoryPairs(session[1], limit_opt)

ComesFirst_ascending(x, summaries) == \A y \in summaries : x.updated_at <= y.updated_at

\* ORDER BY updated_at DESC / sort(key = updated_at, reverse = True): x may
\* stand before all of summaries
ComesFirst(x, summaries) == \A y \in summaries : x.updated_at >= y.updated_at

\* the lists that order a set of summaries by updated_at descending; summaries
\* with equal updated_at stand in either order
RECURSIVE OrderedLists(_)
OrderedLists(summaries) ==
    IF summaries = {} THEN {<<>>}
    ELSE UNION {{<<x>> \o rest : rest \in OrderedLists(summaries \ {x})} :
                    x \in {y \in summaries : ComesFirst(y, summaries)}}

\* SELECT ..., (SELECT COUNT(*) FROM messages ...) FROM sessions ORDER BY updated_at DESC
_get_all_sessions_from_db(m) ==
    OrderedLists({[session_id    |-> sid,
                   created_at    |-> m.sessions[sid].created_at,
                   updated_at    |-> m.sessions[sid].updated_at,
                   message_count |-> Len(DbRowsOf(m.messages, sid))] :
                        sid \in DOMAIN m.sessions})

\* the files matching session_*.json, read and sorted
_get_all_sessions_from_files(m) ==
    OrderedLists({[session_id    |-> m.files[x].session_id,
                   created_at    |-> m.files[x].created_at,
                   updated_at    |-> m.files[x].updated_at,
                   message_count |-> Len(m.files[x].messages)] :
                        x \in GlobSessionFiles(m.files)})

----------------------------------------------------------------------------
(* The store under both backends: every call is made with the same         *)
(* arguments on a MemoryManager(use_db=True) and a MemoryManager(use_db=   *)
(* False).  Each call happens at a fresh reading t of the logical clock.   *)

OptSessionIds == {None} \cup {Some(sid) : sid \in SessionIds}

Call_dropping_index(op, args, rdb, rfile, t) ==
    /\ \E r1 \in {rdb}, r2 \in {rfile} :
        /\ db' = r1.st
        /\ fs' = r2.st
        /\ last' = [op |-> op, args |-> args, db |-> r1.ret, file |-> r2.ret]
    /\ now' = t
    /\ collection' = <<>>
    /\ UNCHANGED <<chatVars, embeddings, add_rejects_existing, rag_last, useVars>>

Call(op, args, rdb, rfile, t) ==
    /\ \E r1 \in {rdb}, r2 \in {rfile} :
        /\ db' = r1.st
        /\ fs' = r2.st
        /\ last' = [op |-> op, args |-> args, db |-> r1.ret, file |-> r2.ret]
    /\ now' = t
    /\ UNCHANGED <<chatVars, ragVars, useVars>>

CreateSession ==
    /\ now < MaxClock
    /\ \E sid_opt \in OptSessionIds :
        Call("create_session", <<sid_opt>>,
             create_session_db(db, sid_opt, now + 1),
             create_session_file(fs, sid_opt, now + 1), now + 1)

\* the new ids a caller passes: a session id, the empty string, whitespace
NewSessionIds == SessionIds \cup {<<>>, <<" ">>}

RenameSession ==
    /\ now < MaxClock
    /\ \E old \in SessionIds, new \in NewSessionIds :
        Call("rename_session", <<old, new>>,
             rename_session_db(db, old, new),
             rename_session_file(fs, old, new), now + 1)

AddMessage ==
    /\ now < MaxClock
    /\ \E role \in Roles, content \in Contents, sid_opt \in OptSessionIds :
        Call("add_message", <<role, content, sid_opt>>,
             add_message_db(db, role, content, sid_opt, now + 1),
             add_message_file(fs, role, content, sid_opt, now + 1), now + 1)

ClearSessionMessages ==
    /\ now < MaxClock
    /\ \E sid \in SessionIds :
        Call("clear_session_messages", <<sid>>,
             clear_session_messages_db(db, sid, now + 1),
             clear_session_messages_file(fs, sid, now + 1), now + 1)

DeleteSession ==
    /\ now < MaxClock
    /\ \E sid \in SessionIds :
        Call("delete_session", <<sid>>,
             delete_session_db(db, sid), delete_session_file(fs, sid), now + 1)

ClearAll ==
    /\ now < MaxClock
    /\ Call("clear_all", <<>>, clear_all_db(db), clear_all_file(fs), now + 1)

ChatIdle ==
    /\ last_request_time = 0
    /\ clock = 0
    /\ pc = <<>>
    /\ current_time = <<>>
    /\ wake_at = <<>>
    /\ started = 0
    /\ dispatches = <<>>
    /\ outcome = <<>>
    /\ stamped = <<>>
    /\ last_success = 0

RagIdle ==
    /\ collection = <<>>
    /\ embeddings = FALSE
    /\ add_rejects_existing = FALSE
    /\ rag_last = [op |-> "init"]

UseIdle ==
    /\ prompt = [op |-> "init"]
    /\ turn = [pc |-> "idle"]
    /\ rn = [pc |-> "idle", calls |-> 0]

\* MemoryManager.__init__: an empty store and no current session
MemInit ==
    /\ db = [sessions |-> <<>>, messages |-> <<>>, current |-> None]
    /\ fs = [files |-> <<>>, current |-> None]
    /\ now = 0
    /\ last = [op |-> "init", args |-> <<>>, db |-> None, file |-> None]

Init ==
    /\ MemInit
    /\ ChatIdle
    /\ RagIdle
    /\ UseIdle

Next ==
    \/ CreateSession
    \/ RenameSession
    \/ AddMessage
    \/ ClearSessionMessages
    \/ DeleteSession
    \/ ClearAll

Spec == Init /\ [][Next]_vars

----------------------------------------------------------------------------
(* Claims about the session store                                          *)

MessagesDb(m, sid) == get_session_db(m, sid)[1].messages
MessagesFile(m, sid) == get_session_file(m, sid)[1].messages

\* C1: in both backends clear_session_messages(id) removes the user and
\* assistant messages of the session and keeps its document_context messages,
\* in their order, in the persisted store: get_session(id) afterwards returns
\* exactly the document_context messages.
C1_ClearStep ==
    last'.op = "clear_session_messages" =>
        LET sid == last'.args[1]
        IN  /\ SessionFound(get_session_db(db, sid)) =>
                /\ SessionFound(get_session_db(db', sid))
                /\ MessagesDb(db', sid) = KeepDocumentContext(MessagesDb(db, sid))
            /\ SessionFound(get_session_file(fs, sid)) =>
                /\ SessionFound(get_session_file(fs', sid))
                /\ MessagesFile(fs', sid) = KeepDocumentContext(MessagesFile(fs, sid))

C1_ClearPreservesDocuments == [][C1_ClearStep]_vars

\* C2: rename_session(old, new) is atomic: afterwards either the session and
\* all messages stored under old are stored under new and nothing is stored
\* under old, or the store is as before; and in no reachable state do messages
\* exist under an id that has no session.
NoOrphanMessages ==
    \A i \in 1..Len(db.messages) : db.messages[i].session_id \in DOMAIN db.sessions

C2_RenameStep ==
    last'.op = "rename_session" =>
        LET old == last'.args[1]
            new == last'.args[2]
        IN  /\ \/ /\ db'.sessions = db.sessions
                  /\ db'.messages = db.messages
               \/ /\ SessionFound(get_session_db(db, old))
                  /\ get_session_db(db', new)
                        = Some([get_session_db(db, old)[1] EXCEPT !.session_id = new])
                  /\ old \notin DOMAIN db'.sessions
                  /\ DbRowsOf(db'.messages, old) = <<>>
            /\ \/ fs'.files = fs.files
               \/ /\ SessionFound(get_session_file(fs, old))
                  /\ get_session_file(fs', new)
                        = Some([get_session_file(fs, old)[1] EXCEPT !.session_id = new])
                  /\ old \notin DOMAIN fs'.files

C2_RenameAtomic == []NoOrphanMessages /\ [][C2_RenameStep]_vars

\* C3: rename_session(old, new) where new is the id of an existing session
\* (new = old included) returns False and changes neither the persisted
\* sessions and messages nor the current session.
C3_RenameStep ==
    last'.op = "rename_session" =>
        LET new == last'.args[2]
        IN  /\ new \in DOMAIN db.sessions => (last'.db = FALSE /\ db' = db)
            /\ new \in DOMAIN fs.files => (last'.file = FALSE /\ fs' = fs)

C3_RenameOntoExistingFails == [][C3_RenameStep]_vars

C3_Witness ==
    /\ last.op = "rename_session"
    /\ last.args[1] # last.args[2]
    /\ {last.args[1], last.args[2]} \subseteq DOMAIN db.sessions
    /\ {last.args[1], last.args[2]} \subseteq DOMAIN fs.files
    /\ last.db = FALSE
    /\ last.file = FALSE

\* C4: from every store state with a session a and no session b,
\* rename_session(a, b) followed by rename_session(b, a) both succeed and
\* leave the store as it was.
C4_RenameRoundTrip ==
    \A a \in SessionIds, b \in SessionIds :
        /\ (a \in DOMAIN db.sessions /\ b \notin DOMAIN db.sessions) =>
              LET r1 == rename_session_db(db, a, b)
                  r2 == rename_session_db(r1.st, b, a)
              IN  r1.ret /\ r2.ret /\ r2.st = db
        /\ (a \in DOMAIN fs.files /\ b \notin DOMAIN fs.files) =>
              LET r1 == rename_session_file(fs, a, b)
                  r2 == rename_session_file(r1.st, b, a)
              IN  r1.ret /\ r2.ret /\ r2.st = fs

\* C5: after any sequence of store operations, the session returned by
\* get_session(create_session(id).session_id) has zero messages, in both
\* backends.
C5_CreateStep ==
    last'.op = "create_session" =>
        /\ SessionFound(get_session_db(db', last'.db.session_id))
        /\ MessagesDb(db', last'.db.session_id) = <<>>
        /\ SessionFound(get_session_file(fs', last'.file.session_id))
        /\ MessagesFile(fs', last'.file.session_id) = <<>>

C5_CreatedSessionIsEmpty == [][C5_CreateStep]_vars

\* C6: add_message on an existing session appends its (role, content) pair at
\* the end of get_conversation_history(id), and get_conversation_history(id,
\* limit = N) for N >= 1 is the last N pairs of the full history in the same
\* order, or all of them when fewer than N exist.
IsLastN(part, full, n) ==
    /\ Len(part) = (IF Len(full) < n THEN Len(full) ELSE n)
    /\ \A i \in 1..Len(part) : part[i] = full[Len(full) - Len(part) + i]

C6_LimitIsSuffix ==
    \A sid \in SessionIds, n \in PositiveLimits :
        /\ IsLastN(get_conversation_history_db(db, Some(sid), Some(n)),
                   get_conversation_history_db(db, Some(sid), None), n)
        /\ IsLastN(get_conversation_history_file(fs, Some(sid), Some(n)),
                   get_conversation_history_file(fs, Some(sid), None), n)

C6_AddStep ==
    last'.op = "add_message" =>
        LET pair  == <<last'.args[1], last'.args[2]>>
            rdb   == ResolveSessionId(db.current, last'.args[3])
            rfile == ResolveSessionId(fs.current, last'.args[3])
        IN  /\ (~NoActiveSession(rdb) /\ rdb[1] \in DOMAIN db.sessions) =>
                get_conversation_history_db(db', rdb, None)
                    = Append(get_conversation_history_db(db, rdb, None), pair)
            /\ (~NoActiveSession(rfile) /\ rfile[1] \in DOMAIN fs.files) =>
                get_conversation_history_file(fs', rfile, None)
                    = Append(get_conversation_history_file(fs, rfile, None), pair)

C6_HistoryInInsertionOrder == []C6_LimitIsSuffix /\ [][C6_AddStep]_vars

C6_Witness ==
    /\ last.op = "add_message"
    /\ \E sid \in SessionIds :
        /\ Len(get_conversation_history_db(db, Some(sid), None)) = 3
        /\ Len(get_conversation_history_file(fs, Some(sid), None)) = 3
        /\ Len(get_conversation_history_db(db, Some(sid), Some(2))) = 2
        /\ Len(get_conversation_history_file(fs, Some(sid), Some(2))) = 2

\* C21: in both backends every list that get_all_sessions() can return is
\* ordered by updated_at descending: of two adjacent summaries the earlier
\* one's updated_at is greater than or equal to the later one's.
C21_SessionsByUpdatedAtDescending ==
    /\ \A summaries \in _get_all_sessions_from_db(db) :
        \A i \in 1..(Len(summaries) - 1) :
            summaries[i].updated_at >= summaries[i + 1].updated_at
    /\ \A summaries \in _get_all_sessions_from_files(fs) :
        \A i \in 1..(Len(summaries) - 1) :
            summaries[i].updated_at >= summaries[i + 1].updated_at

C21_Witness ==
    /\ \E summaries \in _get_all_sessions_from_db(db) :
        Len(summaries) = 3 /\ summaries[1].updated_at > summaries[3].updated_at
    /\ \E summaries \in _get_all_sessions_from_files(fs) :
        Len(summaries) = 2 /\ summaries[1].updated_at > summaries[2].updated_at

\* C15: rename_session(old, new) where no session with id old exists returns
\* False in both backends and leaves the store and the current session
\* unchanged.
C15_RenameStep ==
    last'.op = "rename_session" =>
        LET old == last'.args[1]
        IN  /\ ~SessionFound(get_session_db(db, old)) => (last'.db = FALSE /\ db' = db)
            /\ ~SessionFound(get_session_file(fs, old)) => (last'.file = FALSE /\ fs' = fs)

C15_RenameMissingFails == [][C15_RenameStep]_vars

\* C16: add_message with a session id that is not in the store returns None
\* and persists no message under that id, in both backends, so that a later
\* create_session of that id loads with zero messages.
C16_AddStep ==
    (last'.op = "add_message" /\ last'.args[3] # None) =>
        LET sid == last'.args[3][1]
        IN  /\ ~SessionFound(get_session_db(db, sid)) =>
                /\ last'.db = None
                /\ DbRowsOf(db'.messages, sid) = <<>>
            /\ ~SessionFound(get_session_file(fs, sid)) =>
                /\ last'.file = None
                /\ fs'.files = fs.files

C16_AddToMissingFails == [][C16_AddStep]_vars

\* C19: in both backends every add_message or clear_session_messages that
\* changes the persisted message list of a session strictly advances the
\* persisted updated_at of that session.
C19_TouchStep ==
    last'.op \in {"add_message", "clear_session_messages"} =>
        \A sid \in SessionIds :
            /\ (/\ SessionFound(get_session_db(db, sid))
                /\ SessionFound(get_session_db(db', sid))
                /\ MessagesDb(db', sid) # MessagesDb(db, sid))
                    => db'.sessions[sid].updated_at > db.sessions[sid].updated_at
            /\ (/\ SessionFound(get_session_file(fs, sid))
                /\ SessionFound(get_session_file(fs', sid))
                /\ MessagesFile(fs', sid) # MessagesFile(fs, sid))
                    => fs'.files[sid].updated_at > fs.files[sid].updated_at

C19_UpdatedAtAdvances == [][C19_TouchStep]_vars

\* C20: the two backends are interchangeable: after every sequence of calls
\* made with the same arguments on both, each call returned the same value in
\* both, and both hold the same sessions with the same messages in the same
\* order and give the same conversation histories.
C20_BackendsAgree ==
    /\ last.db = last.file
    /\ \A sid \in SessionIds :
        /\ get_session_db(db, sid) = get_session_file(fs, sid)
        /\ get_conversation_history_db(db, Some(sid), None)
              = get_conversation_history_file(fs, Some(sid), None)
    /\ get_conversation_history_db(db, None, None)
          = get_conversation_history_file(fs, None, None)

----------------------------------------------------------------------------
(* chatbot.py: the throttle of Chatbot.chat.  clock is time.time(); every  *)
(* caller is a thread inside chat() on the one Chatbot instance.  Time may *)
(* pass between any two statements; it is observed in quanta of TickStep.  *)

RATE_LIMIT_DURATION == 60

StartTime == 60      \* time.time() when the first call arrives
MaxTime == 200       \* the clock is followed up to here
TickStep == 20       \* the quantum by which the clock advances
MaxCalls == 2        \* chat() invocations in one run

Callers == {1, 2}
ChatMessages == {<<>>, <<" ">>, <<"hi">>}
InvokeResults == {"ok", "InvalidArgument", "GoogleAPIError", "Exception"}

\* time passes; it is followed beyond MaxTime only while a call is asleep
Tick ==
    /\ \/ clock + TickStep <= MaxTime
       \/ \E c \in Callers : pc[c] = "sleeping" /\ clock < wake_at[c]
    /\ clock' = clock + TickStep
    /\ UNCHANGED <<last_request_time, pc, current_time, wake_at, started,
                   dispatches, outcome, stamped, last_success,
                   memVars, ragVars, useVars>>

\* chat() is entered; `if not message or not message.strip(): raise ValueError`
ChatCall(c, message) ==
    /\ pc[c] = "idle"
    /\ started < MaxCalls
    /\ started' = started + 1
    /\ IF EmptyName(message)
       THEN /\ outcome' = [outcome EXCEPT ![c] = "ValueError"]
            /\ pc' = pc
       ELSE /\ outcome' = [outcome EXCEPT ![c] = "running"]
            /\ pc' = [pc EXCEPT ![c] = "read_time"]
    /\ UNCHANGED <<last_request_time, clock, current_time, wake_at,
                   dispatches, stamped, last_success, memVars, ragVars, useVars>>

\* current_time = time.time()
ReadTime(c) ==
    /\ pc[c] = "read_time"
    /\ current_time' = [current_time EXCEPT ![c] = clock]
    /\ pc' = [pc EXCEPT ![c] = "elapsed"]
    /\ UNCHANGED <<last_request_time, clock, wake_at, started,
                   dispatches, outcome, stamped, last_success,
                   memVars, ragVars, useVars>>

\* sleep_time = RATE_LIMIT_DURATION - elapsed_time
SleepTime_doubled(elapsed_time) == 2 * RATE_LIMIT_DURATION - elapsed_time

SleepTime(elapsed_time) == RATE_LIMIT_DURATION - elapsed_time

\* elapsed_time = current_time - self.last_request_time; time.sleep(sleep_time)
\* is entered when elapsed_time < RATE_LIMIT_DURATION
ComputeElapsed(c) ==
    /\ pc[c] = "elapsed"
    /\ LET elapsed_time == current_time[c] - last_request_time
       IN  IF elapsed_time < RATE_LIMIT_DURATION
           THEN /\ wake_at' = [wake_at EXCEPT ![c] = clock + SleepTime(elapsed_time)]
                /\ pc' = [pc EXCEPT ![c] = "sleeping"]
           ELSE /\ wake_at' = wake_at
                /\ pc' = [pc EXCEPT ![c] = "stamp"]
    /\ UNCHANGED <<last_request_time, clock, current_time, started,
                   dispatches, outcome, stamped, last_success,
                   memVars, ragVars, useVars>>

\* time.sleep returns, not before sleep_time has passed
WakeUp(c) ==
    /\ pc[c] = "sleeping"
    /\ clock >= wake_at[c]
    /\ pc' = [pc EXCEPT ![c] = "stamp"]
    /\ UNCHANGED <<last_request_time, clock, current_time, wake_at, started,
                   dispatches, outcome, stamped, last_success,
                   memVars, ragVars, useVars>>

\* self.last_request_time = time.time()
Stamp(c) ==
    /\ pc[c] = "stamp"
    /\ last_request_time' = clock
    /\ stamped' = [stamped EXCEPT ![c] = clock]
    /\ pc' = [pc EXCEPT ![c] = "build_prompt"]
    /\ UNCHANGED <<clock, current_time, wake_at, started,
                   dispatches, outcome, last_success, memVars, ragVars, useVars>>

\* the prompt is built and self.llm.invoke(prompt) is dispatched
Dispatch(c) ==
    /\ pc[c] = "build_prompt"
    /\ dispatches' = Append(dispatches, clock)
    /\ pc' = [pc EXCEPT ![c] = "invoking"]
    /\ UNCHANGED <<last_request_time, clock, current_time, wake_at, started,
                   outcome, stamped, last_success, memVars, ragVars, useVars>>

\* what can go wrong in the generation backend while llm.invoke runs
InvokeFailures == {"credentials", "model", "transport", "backend"}

\* the exception llm.invoke raises for a failure: the service rejects a bad
\* API key or model name with InvalidArgument or another GoogleAPIError; a
\* transport or service failure arrives as GoogleAPIError or another Exception
Raises(failure) ==
    IF failure \in {"credentials", "model"}
    THEN {"InvalidArgument", "GoogleAPIError"}
    ELSE {"GoogleAPIError", "Exception"}

\* except InvalidArgument / except GoogleAPIError / except Exception
ExceptClause(exception) ==
    IF exception = "InvalidArgument" THEN "APIError"
    ELSE IF exception = "GoogleAPIError" THEN "APIError"
    ELSE "APIError"

\* chat() is left: the locals of the call are gone
Leave(c) ==
    /\ pc' = [pc EXCEPT ![c] = "idle"]
    /\ current_time' = [current_time EXCEPT ![c] = 0]
    /\ wake_at' = [wake_at EXCEPT ![c] = 0]
    /\ stamped' = [stamped EXCEPT ![c] = 0]
    /\ UNCHANGED <<last_request_time, clock, started, dispatches,
                   memVars, ragVars, useVars>>

\* llm.invoke returns the result and chat() returns it
InvokeOk(c) ==
    /\ pc[c] = "invoking"
    /\ outcome' = [outcome EXCEPT ![c] = "result"]
    /\ last_success' = IF stamped[c] > last_success THEN stamped[c] ELSE last_success
    /\ Leave(c)

\* llm.invoke raises and the matching except clause raises in its place
InvokeRaises(c, failure) ==
    /\ pc[c] = "invoking"
    /\ \E exception \in Raises(failure) :
        /\ exception \in InvokeResults
        /\ outcome' = [outcome EXCEPT ![c] = ExceptClause(exception)]
    /\ last_success' = last_success
    /\ Leave(c)

InvokeReturns(c) ==
    \/ InvokeOk(c)
    \/ \E failure \in InvokeFailures : InvokeRaises(c, failure)

\* Chatbot.__init__: last_request_time = 0; no call is running
ChatInit ==
    /\ last_request_time = 0
    /\ clock = StartTime
    /\ pc = [c \in Callers |-> "idle"]
    /\ current_time = [c \in Callers |-> 0]
    /\ wake_at = [c \in Callers |-> 0]
    /\ started = 0
    /\ dispatches = <<>>
    /\ outcome = [c \in Callers |-> "none"]
    /\ stamped = [c \in Callers |-> 0]
    /\ last_success = 0

InitChat ==
    /\ MemInit
    /\ ChatInit
    /\ RagIdle
    /\ UseIdle

ChatStep(c) ==
    \/ ReadTime(c)
    \/ ComputeElapsed(c)
    \/ WakeUp(c)
    \/ Stamp(c)
    \/ Dispatch(c)
    \/ InvokeReturns(c)

\* the callers call chat() one after the other: a call starts when none is running
NextChatSeq ==
    \/ \E c \in Callers, message \in ChatMessages :
            (\A o \in Callers : pc[o] = "idle") /\ ChatCall(c, message)
    \/ \E c \in Callers : ChatStep(c)
    \/ Tick

\* the callers call chat() concurrently
NextChat ==
    \/ \E c \in Callers, message \in ChatMessages : ChatCall(c, message)
    \/ \E c \in Callers : ChatStep(c)
    \/ Tick

SpecChatSeq == InitChat /\ [][NextChatSeq]_vars
SpecChat == InitChat /\ [][NextChat]_vars

\* C7: on one Chatbot called sequentially, any two consecutive dispatches to
\* the language model are at least RATE_LIMIT_DURATION apart, for every timing.
C7_SequentialDispatchSpacing ==
    \A i \in 1..(Len(dispatches) - 1) :
        dispatches[i + 1] - dispatches[i] >= RATE_LIMIT_DURATION

\* C8: with concurrent callers of chat() on one Chatbot, under every
\* interleaving, no two dispatches are less than RATE_LIMIT_DURATION apart.
C8_ConcurrentDispatchSpacing ==
    \A i \in DOMAIN dispatches, j \in DOMAIN dispatches :
        i < j => dispatches[j] - dispatches[i] >= RATE_LIMIT_DURATION

\* C13: chat() with an empty or whitespace-only message raises the validation
\* error before the throttle is touched: the call does not wait and does not
\* dispatch, and last_request_time is unchanged, so a later valid call is not
\* delayed by it.
BlankMessages == {m \in ChatMessages : \A i \in 1..Len(m) : m[i] = " "}

C13_CallStep ==
    \A c \in Callers, message \in BlankMessages :
        ChatCall(c, message) =>
            /\ outcome'[c] = "ValueError"
            /\ pc'[c] = "idle"
            /\ last_request_time' = last_request_time
            /\ dispatches' = dispatches
            /\ wake_at' = wake_at
            /\ clock' = clock

C13_EmptyMessageRejected == [][C13_CallStep]_vars

C13_Witness ==
    /\ \E c \in Callers : outcome[c] = "ValueError" /\ pc[c] = "idle"
    /\ started = MaxCalls
    /\ Len(dispatches) = 1
    /\ last_request_time > 0

\* C26: every failure of the generation backend during chat() reaches the
\* caller as a classified error, never as a returned string: a bad credential
\* or model name as ConfigurationError, a transport or backend-reported
\* failure as APIError.
C26_RaiseStep ==
    \A c \in Callers, failure \in InvokeFailures :
        InvokeRaises(c, failure) =>
            outcome'[c] = IF failure \in {"credentials", "model"}
                          THEN "ConfigurationError"
                          ELSE "APIError"

C26_FailuresClassified == [][C26_RaiseStep]_vars

\* C28: the wait of a chat() invocation is computed from the time of the last
\* successful dispatch; a dispatch that failed does not restart the cooling
\* interval for the next invocation.
C28_WaitStep ==
    \A c \in Callers :
        ComputeElapsed(c) =>
            LET since == current_time[c] - last_success
                wait  == IF pc'[c] = "sleeping" THEN wake_at'[c] - clock ELSE 0
            IN  wait = IF since < RATE_LIMIT_DURATION
                       THEN RATE_LIMIT_DURATION - since
                       ELSE 0

C28_WaitSinceLastSuccess == [][C28_WaitStep]_vars

\* time advances, and a thread inside chat() goes on running
SpecChatSeqLive ==
    /\ SpecChatSeq
    /\ WF_vars(Tick)
    /\ \A c \in Callers : WF_vars(ChatStep(c))

\* the call has passed the validation and has not yet dispatched
C29_Cooling(c) == pc[c] \in {"read_time", "elapsed", "sleeping", "stamp", "build_prompt"}

C29_Step ==
    /\ \A c \in Callers :
        \* the invocation dispatches when it leaves the cooling state ...
        /\ (C29_Cooling(c) /\ ~C29_Cooling(c)') =>
                /\ pc'[c] = "invoking"
                /\ dispatches' = Append(dispatches, clock)
        \* ... and ends without another dispatch
        /\ pc[c] = "invoking" => pc'[c] \in {"invoking", "idle"}
        \* called sequentially, it waits at most one RATE_LIMIT_DURATION
        /\ (ComputeElapsed(c) /\ pc'[c] = "sleeping") =>
                wake_at'[c] - clock <= RATE_LIMIT_DURATION
        \* a call on a fresh instance does not wait
        /\ (ComputeElapsed(c) /\ last_request_time = 0) => pc'[c] = "stamp"
    /\ (\A c \in Callers : C29_Cooling(c) => C29_Cooling(c)') =>
            dispatches' = dispatches

\* C29: assuming time advances, every chat() invocation with a non-empty
\* message eventually leaves the cooling state and dispatches exactly once to
\* the language model; called sequentially it waits at most one
\* RATE_LIMIT_DURATION, and a call on a fresh instance (last_request_time = 0)
\* dispatches without waiting.
C29_ThrottleLiveness ==
    /\ \A c \in Callers : C29_Cooling(c) ~> (pc[c] = "invoking")
    /\ [][C29_Step]_vars

C29_Witness ==
    /\ \E c \in Callers : pc[c] = "invoking" /\ wake_at[c] > 0
    /\ Len(dispatches) = 2
    /\ dispatches[2] - dispatches[1] >= RATE_LIMIT_DURATION

----------------------------------------------------------------------------
(* chromadb_rag.py: the retrieval index.  collection maps the id of every  *)
(* stored chunk to its document text and metadata; embeddings tells        *)
(* whether the embedding model was initialized.  Distances, similarities   *)
(* and thresholds are in hundredths.                                       *)

MaxChunks == 2       \* chunks the splitter cuts one document into
MaxDocs == 2         \* documents in one add_documents call
MaxTopK == 2

ChunkTexts == {"t1", "t2"}
Sources == {"note.txt"}
Distances == {0, 50, 120}
Thresholds == {0, 50}
BadSets == {{}, {"t1"}}
TopKs == 0..MaxTopK

DocContents == UNION {[1..n -> ChunkTexts] : n \in 0..MaxChunks}
DocumentInputs == [content : DocContents, source : Sources]
DocumentLists == UNION {[1..n -> DocumentInputs] : n \in 0..MaxDocs}

\* self.text_splitter.split_text(content): a content is given as the sequence
\* of the chunks the splitter cuts it into
split_text(content) == [k \in 1..Len(content) |-> content[k]]

\* hashlib.sha256(chunk.encode('utf-8')).hexdigest(): one digest per text
sha256(chunk) == <<"sha256", chunk>>

doc_id_positional(chunk, idx, chunk_idx) == <<"doc_", sha256(chunk), idx, chunk_idx>>

\* doc_id = f"doc_{chunk_hash}"
doc_id(chunk, idx, chunk_idx) == <<"doc_", sha256(chunk)>>

\* the entries one document contributes to chunks_to_add
DocChunks(doc, idx) ==
    LET chunks == split_text(doc.content)
    IN  [k \in 1..Len(chunks) |->
            [id       |-> doc_id(chunks[k], idx, k - 1),
             document |-> chunks[k],
             metadata |-> [source |-> doc.source, chunk_index |-> k - 1]]]

\* chunks_to_add: documents without content are skipped
RECURSIVE ChunksToAdd(_, _)
ChunksToAdd(documents, i) ==
    IF i > Len(documents) THEN <<>>
    ELSE (IF documents[i].content = <<>> THEN <<>> ELSE DocChunks(documents[i], i - 1))
            \o ChunksToAdd(documents, i + 1)

\* collection.add of ChromaDB: ids repeated within one call raise; an id that
\* is already stored is never stored again (it raises or is ignored,
\* depending on the library version)
CollectionAddRaises(coll, chunks, rejects) ==
    \/ \E i \in 1..Len(chunks), j \in 1..Len(chunks) : i # j /\ chunks[i].id = chunks[j].id
    \/ rejects /\ \E i \in 1..Len(chunks) : chunks[i].id \in DOMAIN coll

CollectionAdd(coll, chunks) ==
    LET new == {chunks[i].id : i \in 1..Len(chunks)} \ DOMAIN coll
    IN  [id \in (DOMAIN coll) \cup new |->
            IF id \in DOMAIN coll THEN coll[id]
            ELSE LET i == CHOOSE i \in 1..Len(chunks) : chunks[i].id = id
                 IN  [document |-> chunks[i].document, metadata |-> chunks[i].metadata]]

EmbeddingsMissing_ignored(emb) == FALSE

\* `if not self.embeddings`
EmbeddingsMissing(emb) == ~emb

IndividualAddFails_with_any(coll, chunk, bad, rejects) == bad # {}

\* embed_query or collection.add raises for this one chunk
IndividualAddFails(coll, chunk, bad, rejects) ==
    chunk.document \in bad \/ CollectionAddRaises(coll, <<chunk>>, rejects)

\* the fallback loop: embed_query and collection.add chunk by chunk
RECURSIVE AddIndividually(_, _, _, _, _, _)
AddIndividually(coll, chunks, i, bad, rejects, added_count) ==
    IF i > Len(chunks) THEN [coll |-> coll, added_count |-> added_count]
    ELSE IF ~IndividualAddFails(coll, chunks[i], bad, rejects)
         THEN AddIndividually(CollectionAdd(coll, <<chunks[i]>>), chunks, i + 1,
                              bad, rejects, added_count + 1)
         ELSE AddIndividually(coll, chunks, i + 1, bad, rejects, added_count)

StoredTexts(coll) == {coll[id].document : id \in DOMAIN coll}

\* add_documents: batch_ok tells whether embed_documents succeeds, bad is the
\* set of chunk texts whose embed_query fails
add_documents(coll, emb, rejects, documents, batch_ok, bad) ==
    IF documents = <<>> THEN [coll |-> coll, added_count |-> 0]
    ELSE IF EmbeddingsMissing(emb) THEN [coll |-> coll, added_count |-> 0]
    ELSE LET chunks_to_add == ChunksToAdd(documents, 1)
         IN  IF chunks_to_add = <<>> THEN [coll |-> coll, added_count |-> 0]
             ELSE IF batch_ok /\ ~CollectionAddRaises(coll, chunks_to_add, rejects)
                  THEN [coll |-> CollectionAdd(coll, chunks_to_add),
                        added_count |-> Len(chunks_to_add)]
                  ELSE AddIndividually(coll, chunks_to_add, 1, bad, rejects, 0)

\* collection.query(n_results = top_k) of ChromaDB: the top_k nearest entries
\* by ascending distance, ties in any order
NearestLists(coll, dist, top_k) ==
    LET ids == DOMAIN coll
        n   == IF top_k < Cardinality(ids) THEN top_k ELSE Cardinality(ids)
    IN  {s \in [1..n -> ids] :
            /\ \A i \in 1..n, j \in 1..n : i # j => s[i] # s[j]
            /\ \A i \in 1..n, j \in 1..n : i < j => dist[s[i]] <= dist[s[j]]
            /\ \A o \in ids : (\A i \in 1..n : s[i] # o) =>
                                \A i \in 1..n : dist[s[i]] <= dist[o]}

Similarity_raw(distance) == distance

\* similarity = 1 - distance
Similarity(distance) == 100 - distance

BelowThreshold_never(similarity, threshold) == FALSE

\* `if similarity < threshold: continue`
BelowThreshold(similarity, threshold) == similarity < threshold

\* the loop over documents[0] that builds formatted_results
RECURSIVE FormatResults(_, _, _, _, _)
FormatResults(coll, dist, ranked, i, threshold) ==
    IF i > Len(ranked) THEN <<>>
    ELSE LET distance   == dist[ranked[i]]
             similarity == Similarity(distance)
             rest       == FormatResults(coll, dist, ranked, i + 1, threshold)
         IN  IF BelowThreshold(similarity, threshold) THEN rest
             ELSE <<[content    |-> coll[ranked[i]].document,
                     similarity |-> similarity,
                     distance   |-> distance,
                     metadata   |-> coll[ranked[i]].metadata]>> \o rest

\* query: embed_ok tells whether embed_query succeeds, ranked is the answer of
\* collection.query; top_k < 1 makes collection.query raise
query(coll, emb, dist, ranked, embed_ok, top_k, threshold) ==
    IF EmbeddingsMissing(emb) THEN <<>>
    ELSE IF ~embed_ok \/ top_k < 1 THEN <<>>
    ELSE IF ranked = <<>> THEN <<>>
    ELSE FormatResults(coll, dist, ranked, 1, threshold)

\* threshold: float = 0.5, the default that query_with_context leaves in place
DefaultThreshold == 50

\* f"{similarity:.2%}"
Percent(similarity) == <<ToString(similarity), ".00%">>

ContextEntry_unlabelled(i, result) ==
    <<"### Source ", ToString(i), ": ", " (Relevance: ">> \o Percent(result.similarity)
        \o <<")\n", result.content, "\n\n">>

\* the two lines appended to context for result number i
ContextEntry(i, result) ==
    <<"### Source ", ToString(i), ": ", result.metadata.source, " (Relevance: ">>
        \o Percent(result.similarity) \o <<")\n", result.content, "\n\n">>

RECURSIVE ContextEntries(_, _)
ContextEntries(results, i) ==
    IF i > Len(results) THEN <<>>
    ELSE ContextEntry(i, results[i]) \o ContextEntries(results, i + 1)

\* query_with_context, given the list that its call of query returned
query_with_context(results) ==
    IF results = <<>> THEN <<>>
    ELSE <<"## Retrieved Context:\n\n">> \o ContextEntries(results, 1)

AddDocuments ==
    /\ \E documents \in DocumentLists, batch_ok \in BOOLEAN, bad \in BadSets :
        \E r \in {add_documents(collection, embeddings, add_rejects_existing,
                                 documents, batch_ok, bad)},
           chunks \in {ChunksToAdd(documents, 1)} :
            /\ collection' = r.coll
            /\ rag_last' = [op |-> "add_documents",
                            texts |-> {chunks[i].document : i \in 1..Len(chunks)},
                            repeated |-> \E i \in 1..Len(chunks), j \in 1..Len(chunks) :
                                            i # j /\ chunks[i].document = chunks[j].document,
                            embeddable |-> \A i \in 1..Len(chunks) : chunks[i].document \notin bad,
                            good_chunks |-> Cardinality({i \in 1..Len(chunks) :
                                                            chunks[i].document \notin bad}),
                            bad |-> bad,
                            batch_failed |-> \/ ~batch_ok
                                             \/ CollectionAddRaises(collection, chunks,
                                                                    add_rejects_existing),
                            reimport |-> /\ chunks # <<>>
                                         /\ \A i \in 1..Len(chunks) :
                                                chunks[i].document \in StoredTexts(collection),
                            ret |-> r.added_count]
    /\ UNCHANGED <<embeddings, add_rejects_existing, memVars, chatVars, useVars>>

Query ==
    /\ \E top_k \in TopKs, threshold \in Thresholds, embed_ok \in BOOLEAN,
          dist \in [DOMAIN collection -> Distances] :
        \E ranked \in NearestLists(collection, dist, top_k) :
            rag_last' = [op |-> "query", top_k |-> top_k, threshold |-> threshold,
                         embed_ok |-> embed_ok,
                         clearing |-> Cardinality({id \in DOMAIN collection :
                                                    Similarity(dist[id]) >= threshold}),
                         ret |-> query(collection, embeddings, dist, ranked,
                                       embed_ok, top_k, threshold)]
    /\ UNCHANGED <<collection, embeddings, add_rejects_existing, memVars, chatVars, useVars>>

QueryWithContext ==
    /\ \E top_k \in TopKs, embed_ok \in BOOLEAN, dist \in [DOMAIN collection -> Distances] :
        \E ranked \in NearestLists(collection, dist, top_k) :
            \E results \in {query(collection, embeddings, dist, ranked,
                                   embed_ok, top_k, DefaultThreshold)} :
                rag_last' = [op |-> "query_with_context", top_k |-> top_k,
                             embed_ok |-> embed_ok, results |-> results,
                             clearing |-> Cardinality({id \in DOMAIN collection :
                                            Similarity(dist[id]) >= DefaultThreshold}),
                             ret |-> query_with_context(results)]
    /\ UNCHANGED <<collection, embeddings, add_rejects_existing, memVars, chatVars, useVars>>

\* delete_collection / clear_all: the collection is deleted and re-created empty
DeleteCollection ==
    /\ collection' = <<>>
    /\ rag_last' = [op |-> "delete_collection", ret |-> TRUE]
    /\ UNCHANGED <<embeddings, add_rejects_existing, memVars, chatVars, useVars>>

\* ChromaDBRAG.__init__: an empty collection; the embedding model is there
\* unless its initialization failed
RagInit ==
    /\ collection = <<>>
    /\ embeddings \in BOOLEAN
    /\ add_rejects_existing \in BOOLEAN
    /\ rag_last = [op |-> "init"]

InitRag ==
    /\ MemInit
    /\ ChatIdle
    /\ RagInit
    /\ UseIdle

NextRag ==
    \/ AddDocuments
    \/ Query
    \/ QueryWithContext
    \/ DeleteCollection

SpecRag == InitRag /\ [][NextRag]_vars

----------------------------------------------------------------------------
(* Claims about the retrieval index                                        *)

\* C9: chunk import is idempotent: the id of a chunk depends on its text only,
\* so the index never holds two entries with the same chunk text; an
\* add_documents whose chunks can all be embedded leaves the index with the
\* texts it had plus the chunk texts of the call, one entry each, and
\* importing content that is already stored (in an earlier call, or twice in
\* one call) leaves the index and its set of ids as they were.
C9_OneEntryPerText ==
    \A i \in DOMAIN collection, j \in DOMAIN collection :
        collection[i].document = collection[j].document => i = j

C9_AddStep ==
    (rag_last'.op = "add_documents" /\ embeddings /\ rag_last'.embeddable) =>
        /\ StoredTexts(collection') = StoredTexts(collection) \cup rag_last'.texts
        /\ rag_last'.texts \subseteq StoredTexts(collection) => collection' = collection

C9_ImportIdempotent == []C9_OneEntryPerText /\ [][C9_AddStep]_vars

C9_Witness ==
    /\ rag_last.op = "add_documents"
    /\ embeddings
    /\ rag_last.embeddable
    /\ rag_last.reimport
    /\ rag_last.repeated
    /\ Cardinality(rag_last.texts) = 2
    /\ Cardinality(DOMAIN collection) = 2

\* C10: no result returned by query() has a similarity (1 - distance) below
\* the threshold, and query() returns the empty list when no stored chunk
\* clears the threshold.
C10_ResultsClearThreshold ==
    rag_last.op = "query" =>
        /\ \A i \in 1..Len(rag_last.ret) :
            /\ rag_last.ret[i].similarity = 100 - rag_last.ret[i].distance
            /\ rag_last.ret[i].similarity >= rag_last.threshold
        /\ rag_last.clearing = 0 => rag_last.ret = <<>>

C10_Witness ==
    /\ rag_last.op = "query"
    /\ rag_last.top_k = 2
    /\ Cardinality(DOMAIN collection) = 2
    /\ rag_last.clearing = 1
    /\ Len(rag_last.ret) = 1

\* C11: the list returned by query() is ordered by descending similarity and
\* has at most top_k elements.
C11_SortedAndTruncated ==
    rag_last.op = "query" =>
        /\ Len(rag_last.ret) <= rag_last.top_k
        /\ \A i \in 1..Len(rag_last.ret), j \in 1..Len(rag_last.ret) :
            i < j => rag_last.ret[i].similarity >= rag_last.ret[j].similarity

C11_Witness ==
    /\ rag_last.op = "query"
    /\ rag_last.top_k = 2
    /\ rag_last.clearing = 2
    /\ Len(rag_last.ret) = 2
    /\ rag_last.ret[1].similarity > rag_last.ret[2].similarity

\* C22: retrieval never fails towards its caller: without an embedding model,
\* or when every embedding or index call of the operation fails, add_documents
\* returns 0, query returns the empty list and query_with_context returns the
\* empty string, and the index is unchanged.
C22_AddFailed ==
    \/ ~embeddings
    \/ /\ rag_last'.batch_failed
       /\ \A text \in rag_last'.texts :
            \/ text \in rag_last'.bad
            \/ add_rejects_existing /\ text \in StoredTexts(collection)

C22_QueryFailed == ~embeddings \/ ~rag_last'.embed_ok \/ rag_last'.top_k < 1

C22_Step ==
    /\ (rag_last'.op = "add_documents" /\ C22_AddFailed) =>
            (rag_last'.ret = 0 /\ collection' = collection)
    /\ rag_last'.op \in {"query", "query_with_context"} =>
            /\ collection' = collection
            /\ C22_QueryFailed => rag_last'.ret = <<>>

C23_FallbackStep ==
    (rag_last'.op = "add_documents" /\ embeddings /\ rag_last'.batch_failed) =>
        LET good == rag_last'.texts \ rag_last'.bad
            \* the chunks whose own embed_query and collection.add raise nothing:
            \* every chunk with a good text, or, where the index raises on a
            \* stored id, the first chunk of every good text not stored yet
            succeeded == IF add_rejects_existing
                         THEN Cardinality(good \ StoredTexts(collection))
                         ELSE rag_last'.good_chunks
        IN  /\ rag_last'.ret = succeeded
            /\ good \subseteq StoredTexts(collection')
            /\ StoredTexts(collection') \subseteq StoredTexts(collection) \cup good
            /\ \A id \in DOMAIN collection :
                  id \in DOMAIN collection' /\ collection'[id] = collection[id]

C23_FallbackAddsEachGoodChunk == [][C23_FallbackStep]_vars

C23_Witness ==
    /\ rag_last.op = "add_documents"
    /\ embeddings
    /\ rag_last.batch_failed
    /\ rag_last.texts = {"t1", "t2"}
    /\ rag_last.bad = {"t1"}
    /\ rag_last.good_chunks = 1
    /\ rag_last.ret = 1
    /\ StoredTexts(collection) = {"t2"}

\* C24: query_with_context returns the empty string exactly when its query
\* returns no result, that is when no chunk clears the threshold, and
\* otherwise a string that lists every result of the query in query order,
\* each with its number, its source label, its similarity and its content.
C24_ContextListsResults ==
    rag_last.op = "query_with_context" =>
        LET results == rag_last.results
            ret     == rag_last.ret
        IN  /\ ret = <<>> <=> results = <<>>
            /\ (embeddings /\ rag_last.embed_ok /\ rag_last.top_k >= 1) =>
                    (ret = <<>> <=> rag_last.clearing = 0)
            /\ results # <<>> =>
                /\ Len(ret) = 1 + 10 * Len(results)
                /\ ret[1] = "## Retrieved Context:\n\n"
                /\ \A i \in 1..Len(results) :
                    LET b == 1 + 10 * (i - 1)
                    IN  /\ ret[b + 1] = "### Source "
                        /\ ret[b + 2] = ToString(i)
                        /\ ret[b + 4] = results[i].metadata.source
                        /\ ret[b + 6] = ToString(results[i].similarity)
                        /\ ret[b + 9] = results[i].content

C24_Witness ==
    /\ rag_last.op = "query_with_context"
    /\ Len(rag_last.results) = 2
    /\ rag_last.results[1].similarity > rag_last.results[2].similarity
    /\ Len(rag_last.ret) = 21

----------------------------------------------------------------------------
(* chatbot.py: the prompt built by Chatbot.chat.  A text is a sequence of  *)
(* tokens, a formatted string the concatenation of its literal pieces and  *)
(* its arguments; a history entry is a pair <<role, content>>.             *)

MaxHistory == 3      \* entries in the history passed to chat()

OptTexts == {None, Some(<<>>), Some(<<"x">>)}
Histories == UNION {[1..n -> Roles \X Contents] : n \in 0..MaxHistory}

\* Python truthiness of an Optional[str]
TruthyOpt(text_opt) == text_opt # None /\ Truthy(text_opt[1])

\* the if / elif / elif on user_name and user_persona
PreambleParts(user_name, user_persona) ==
    IF TruthyOpt(user_name) /\ TruthyOpt(user_persona)
    THEN << <<"You are responding to ">> \o user_name[1]
                \o <<", whose persona is: '">> \o user_persona[1] \o <<"'.">> >>
    ELSE IF TruthyOpt(user_name)
    THEN << <<"You are responding to ">> \o user_name[1] \o <<".">> >>
    ELSE IF TruthyOpt(user_persona)
    THEN << <<"The user's persona is: '">> \o user_persona[1] \o <<"'.">> >>
    ELSE <<>>

\* `if rag_context: prompt_parts.append(rag_context)`
RagParts(rag_context) == IF TruthyOpt(rag_context) THEN <<rag_context[1]>> ELSE <<>>

\* the first loop over history: the document_context entries
RECURSIVE DocumentParts(_)
DocumentParts(history) ==
    IF history = <<>> THEN <<>>
    ELSE (IF Head(history)[1] = "document_context"
          THEN << <<"## Imported Document Context:\n", Head(history)[2]>> >>
          ELSE <<>>) \o DocumentParts(Tail(history))

\* the second loop over history: the user and assistant turns
RECURSIVE TurnParts(_)
TurnParts(history) ==
    IF history = <<>> THEN <<>>
    ELSE (IF Head(history)[1] = "user" THEN << <<"User: ", Head(history)[2]>> >>
          ELSE IF Head(history)[1] = "assistant"
          THEN << <<"Assistant: ", Head(history)[2]>> >>
          ELSE <<>>) \o TurnParts(Tail(history))

HistoryParts_turns_first(history) == TurnParts(history) \o DocumentParts(history)

\* `if history:` twice: all document contexts, then all turns
HistoryParts(history) == DocumentParts(history) \o TurnParts(history)

\* prompt_parts at the end of the construction
prompt_parts(message, user_name, user_persona, history, rag_context) ==
    PreambleParts(user_name, user_persona)
        \o RagParts(rag_context)
        \o HistoryParts(history)
        \o << <<"User's message: ">> \o message >>

\* "\n\n".join(prompt_parts)
RECURSIVE join(_)
join(parts) ==
    IF parts = <<>> THEN <<>>
    ELSE IF Len(parts) = 1 THEN parts[1]
    ELSE parts[1] \o <<"\n\n">> \o join(Tail(parts))

\* chat() from the prompt construction on, for a message that passed validation
BuildPrompt ==
    /\ prompt.op = "init"
    /\ \E message \in {m \in ChatMessages : ~EmptyName(m)},
          user_name \in OptTexts, user_persona \in OptTexts,
          history \in Histories, rag_context \in OptTexts :
        \E parts \in {prompt_parts(message, user_name, user_persona, history, rag_context)} :
            prompt' = [op |-> "chat", message |-> message, user_name |-> user_name,
                       user_persona |-> user_persona, history |-> history,
                       rag_context |-> rag_context, parts |-> parts,
                       text |-> join(parts)]
    /\ UNCHANGED <<turn, rn, memVars, chatVars, ragVars>>

InitPrompt ==
    /\ MemInit
    /\ ChatIdle
    /\ RagIdle
    /\ UseIdle

NextPrompt == BuildPrompt

SpecPrompt == InitPrompt /\ [][NextPrompt]_vars

\* C12: the parts of the prompt built by chat() come in this order: the
\* identity/persona preamble (when a name or persona is given), the retrieved
\* context (when given), every document_context entry of history in history
\* order, every user/assistant turn of history in history order, and the
\* current user message last; every history entry appears exactly once.
PartRank(part) ==
    IF part[1] \in {"You are responding to ", "The user's persona is: '"} THEN 1
    ELSE IF part[1] = "## Imported Document Context:\n" THEN 3
    ELSE IF part[1] \in {"User: ", "Assistant: "} THEN 4
    ELSE IF part[1] = "User's message: " THEN 5
    ELSE 2

PartsOfRank(parts, r) == SelectSeq(parts, LAMBDA part : PartRank(part) = r)

EntriesOfRoles(history, roles) == SelectSeq(history, LAMBDA e : e[1] \in roles)

C12_PromptOrder ==
    prompt.op = "chat" =>
        LET parts == prompt.parts
            docs  == EntriesOfRoles(prompt.history, {"document_context"})
            turns == EntriesOfRoles(prompt.history, {"user", "assistant"})
            pdocs == PartsOfRank(parts, 3)
            pturns == PartsOfRank(parts, 4)
        IN  /\ \A i \in 1..Len(parts), j \in 1..Len(parts) :
                i < j => PartRank(parts[i]) <= PartRank(parts[j])
            /\ Len(PartsOfRank(parts, 1))
                  = (IF TruthyOpt(prompt.user_name) \/ TruthyOpt(prompt.user_persona)
                     THEN 1 ELSE 0)
            /\ PartsOfRank(parts, 2)
                  = (IF TruthyOpt(prompt.rag_context) THEN <<prompt.rag_context[1]>> ELSE <<>>)
            /\ Len(pdocs) = Len(docs)
            /\ \A i \in 1..Len(docs) : pdocs[i][2] = docs[i][2]
            /\ Len(pturns) = Len(turns)
            /\ \A i \in 1..Len(turns) :
                /\ pturns[i][1] = (IF turns[i][1] = "user" THEN "User: " ELSE "Assistant: ")
                /\ pturns[i][2] = turns[i][2]
            /\ parts[Len(parts)] = <<"User's message: ">> \o prompt.message
            /\ Len(PartsOfRank(parts, 5)) = 1
            /\ Len(parts) = Len(PartsOfRank(parts, 1)) + Len(PartsOfRank(parts, 2))
                                + Len(docs) + Len(turns) + 1

C12_Witness ==
    /\ prompt.op = "chat"
    /\ TruthyOpt(prompt.user_name)
    /\ TruthyOpt(prompt.rag_context)
    /\ Len(prompt.history) = 3
    /\ prompt.history[1][1] = "user"
    /\ prompt.history[2][1] = "document_context"
    /\ prompt.history[3][1] = "assistant"
    /\ Len(prompt.parts) = 6

----------------------------------------------------------------------------
(* cli.py, app.py: one chat turn against the store.  The three callers of  *)
(* chatbot.chat are the `chat` command, the interactive loop and the web   *)
(* page; turn holds the turn under way and, for the comparison, the        *)
(* session's persisted messages when the turn began.                       *)

TurnKinds == {"command", "interactive", "web"}

PersistedDb(m, sid) ==
    IF SessionFound(get_session_db(m, sid)) THEN MessagesDb(m, sid) ELSE <<>>
PersistedFile(m, sid) ==
    IF SessionFound(get_session_file(m, sid)) THEN MessagesFile(m, sid) ELSE <<>>

\* the interactive loop and the web page store the user message before they
\* call chatbot.chat; the `chat` command stores nothing yet
StoresUserFirst(kind) == kind \in {"interactive", "web"}

\* the turn up to the call of chatbot.chat
TurnBegin ==
    /\ turn.pc # "generating"
    /\ now + 2 <= MaxClock
    /\ \E kind \in TurnKinds, sid \in SessionIds, message \in Contents :
        /\ StoresUserFirst(kind) => (sid \in DOMAIN db.sessions /\ sid \in DOMAIN fs.files)
        /\ turn' = [pc |-> "generating", kind |-> kind, sid |-> sid, message |-> message,
                    before_db |-> PersistedDb(db, sid),
                    before_file |-> PersistedFile(fs, sid)]
        /\ IF StoresUserFirst(kind)
           THEN \E r1 \in {add_message_db(db, "user", message, Some(sid), now + 1)},
                   r2 \in {add_message_file(fs, "user", message, Some(sid), now + 1)} :
                    /\ db' = r1.st
                    /\ fs' = r2.st
                    /\ now' = now + 1
                    /\ last' = [op |-> "add_message", args |-> <<"user", message, Some(sid)>>,
                                db |-> r1.ret, file |-> r2.ret]
           ELSE UNCHANGED memVars
    /\ UNCHANGED <<prompt, rn, chatVars, ragVars>>

\* chatbot.chat returns the response: the remaining messages are stored
TurnGenerated ==
    /\ turn.pc = "generating"
    /\ \E response \in Contents :
        LET sid == turn.sid
            t1  == IF StoresUserFirst(turn.kind) THEN now ELSE now + 1
            d1  == IF StoresUserFirst(turn.kind) THEN db
                   ELSE add_message_db(db, "user", turn.message, Some(sid), t1).st
            f1  == IF StoresUserFirst(turn.kind) THEN fs
                   ELSE add_message_file(fs, "user", turn.message, Some(sid), t1).st
        IN  \E r1 \in {add_message_db(d1, "assistant", response, Some(sid), t1 + 1)},
               r2 \in {add_message_file(f1, "assistant", response, Some(sid), t1 + 1)} :
                /\ db' = r1.st
                /\ fs' = r2.st
                /\ now' = t1 + 1
                /\ last' = [op |-> "add_message", args |-> <<"assistant", response, Some(sid)>>,
                            db |-> r1.ret, file |-> r2.ret]
    /\ turn' = [turn EXCEPT !.pc = "done"]
    /\ UNCHANGED <<prompt, rn, chatVars, ragVars>>

\* chatbot.chat raises (APIError): the handler reports the error, stores nothing
TurnFailed ==
    /\ turn.pc = "generating"
    /\ turn' = [turn EXCEPT !.pc = "failed"]
    /\ UNCHANGED <<prompt, rn, memVars, chatVars, ragVars>>

InitTurn ==
    /\ MemInit
    /\ ChatIdle
    /\ RagIdle
    /\ UseIdle

NextTurn ==
    \/ turn.pc # "generating" /\ CreateSession
    \/ TurnBegin
    \/ TurnGenerated
    \/ TurnFailed

SpecTurn == InitTurn /\ [][NextTurn]_vars

\* C14: when the generation call of a chat turn fails, the session's persisted
\* message list after the turn equals the list before the turn, in both
\* backends: neither the user message nor an assistant message of the failed
\* turn is stored.
C14_FailStep ==
    (turn.pc = "generating" /\ turn'.pc = "failed") =>
        /\ PersistedDb(db', turn.sid) = turn.before_db
        /\ PersistedFile(fs', turn.sid) = turn.before_file

C14_FailedTurnStoresNothing == [][C14_FailStep]_vars

----------------------------------------------------------------------------
(* memory.py: rename_session statement by statement, on one manager of     *)
(* either backend.  rn holds the position inside the call, the arguments,  *)
(* the data read from the old file, and the tables as the open SQLite      *)
(* transaction sees them.  The process may crash between any two           *)
(* statements of the file branch; any statement of the transaction may     *)
(* raise.                                                                  *)

MaxRenames == 1      \* rename_session calls followed statement by statement

Backends == {"db", "file"}

\* a file opened with mode 'w' and not written yet
Truncated == [truncated |-> TRUE]

RenameAtRest == rn.pc \in {"idle", "returned"}

RenameReturns(ret) == [rn EXCEPT !.pc = "returned", !.ret = Some(ret)]

\* the checks on new_session_id, then the branch on use_db
RenameBegin ==
    /\ RenameAtRest
    /\ rn.calls < MaxRenames
    /\ now < MaxClock
    /\ now' = now + 1
    /\ \E backend \in Backends, old \in SessionIds, new \in SessionIds :
        LET call  == [pc |-> "begin", calls |-> rn.calls + 1, backend |-> backend, old |-> old, new |-> new,
                      data |-> None, txn |-> None, ret |-> None,
                      raised_at |-> "", crashed_at |-> ""]
            found == IF backend = "db" THEN get_session_db(db, new)
                     ELSE get_session_file(fs, new)
        IN  rn' = IF EmptyName(new) \/ SessionFound(found)
                  THEN [call EXCEPT !.pc = "returned", !.ret = Some(FALSE)]
                  ELSE IF backend = "db"
                  THEN [call EXCEPT !.pc = "update_sessions",
                                    !.txn = Some([sessions |-> db.sessions,
                                                  messages |-> db.messages])]
                  ELSE IF old \in DOMAIN fs.files
                  THEN [call EXCEPT !.pc = "read"]
                  ELSE [call EXCEPT !.pc = "returned", !.ret = Some(FALSE)]
    /\ UNCHANGED <<db, fs, last, prompt, turn, chatVars, ragVars>>

\* data = json.load(f); data['session_id'] = new_session_id
FileRead ==
    /\ rn.pc = "read"
    /\ rn' = [rn EXCEPT !.pc = "open_w",
                        !.data = Some([fs.files[rn.old] EXCEPT !.session_id = rn.new])]
    /\ UNCHANGED <<memVars, prompt, turn, chatVars, ragVars>>

\* open(old_file_path, 'w')
FileTruncate ==
    /\ rn.pc = "open_w"
    /\ fs' = [fs EXCEPT !.files[rn.old] = Truncated]
    /\ rn' = [rn EXCEPT !.pc = "dump"]
    /\ UNCHANGED <<db, now, last, prompt, turn, chatVars, ragVars>>

\* json.dump(data, f) and the end of the with block
FileDump ==
    /\ rn.pc = "dump"
    /\ fs' = [fs EXCEPT !.files[rn.old] = rn.data[1]]
    /\ rn' = [rn EXCEPT !.pc = "rename"]
    /\ UNCHANGED <<db, now, last, prompt, turn, chatVars, ragVars>>

\* old_file_path.rename(new_file_path)
FileMove ==
    /\ rn.pc = "rename"
    /\ fs' = [fs EXCEPT !.files = (rn.new :> fs.files[rn.old])
                                    @@ [x \in (DOMAIN fs.files) \ {rn.old} |-> fs.files[x]]]
    /\ rn' = [rn EXCEPT !.pc = "current"]
    /\ UNCHANGED <<db, now, last, prompt, turn, chatVars, ragVars>>

\* UPDATE sessions inside the transaction
DbUpdateSessions ==
    /\ rn.pc = "update_sessions"
    /\ rn' = [rn EXCEPT !.pc = "update_messages",
                        !.txn = Some([rn.txn[1] EXCEPT
                                        !.sessions = DbRenameSessions(@, rn.old, rn.new)])]
    /\ UNCHANGED <<memVars, prompt, turn, chatVars, ragVars>>

\* UPDATE messages inside the transaction
DbUpdateMessages ==
    /\ rn.pc = "update_messages"
    /\ rn' = [rn EXCEPT !.pc = "commit",
                        !.txn = Some([rn.txn[1] EXCEPT
                                        !.messages = DbRenameMessages(@, rn.old, rn.new)])]
    /\ UNCHANGED <<memVars, prompt, turn, chatVars, ragVars>>

\* COMMIT: the tables of the transaction become the tables of the database
DbCommit ==
    /\ rn.pc = "commit"
    /\ db' = [db EXCEPT !.sessions = rn.txn[1].sessions, !.messages = rn.txn[1].messages]
    /\ rn' = [rn EXCEPT !.pc = "current", !.txn = None]
    /\ UNCHANGED <<fs, now, last, prompt, turn, chatVars, ragVars>>

Rollback_keep(committed, working) == working

\* the tables after a connection with an open transaction is dropped: SQLite
\* discards what was not committed
Rollback(committed, working) == committed

\* a statement of the transaction raises: `except Exception: return False`,
\* the connection is dropped without COMMIT
DbError ==
    /\ rn.pc \in {"update_sessions", "update_messages", "commit"}
    /\ \E tables \in {Rollback([sessions |-> db.sessions, messages |-> db.messages],
                               rn.txn[1])} :
        db' = [db EXCEPT !.sessions = tables.sessions, !.messages = tables.messages]
    /\ rn' = [rn EXCEPT !.pc = "returned", !.ret = Some(FALSE), !.raised_at = rn.pc]
    /\ UNCHANGED <<fs, now, last, prompt, turn, chatVars, ragVars>>

\* the update of current_session and `return True`
RenameEnd ==
    /\ rn.pc = "current"
    /\ IF rn.backend = "db"
       THEN /\ db' = [db EXCEPT !.current = RenameCurrent(@, rn.old, rn.new)]
            /\ fs' = fs
       ELSE /\ fs' = [fs EXCEPT !.current = RenameCurrent(@, rn.old, rn.new)]
            /\ db' = db
    /\ rn' = RenameReturns(TRUE)
    /\ UNCHANGED <<now, last, prompt, turn, chatVars, ragVars>>

\* the process dies inside the file branch; the files stay as they are
Crash ==
    /\ rn.pc \in {"read", "open_w", "dump", "rename"}
    /\ rn' = [rn EXCEPT !.crashed_at = rn.pc, !.pc = "crashed"]
    /\ UNCHANGED <<memVars, prompt, turn, chatVars, ragVars>>

InitRename ==
    /\ MemInit
    /\ ChatIdle
    /\ RagIdle
    /\ UseIdle

NextRename ==
    \/ RenameAtRest /\ CreateSession
    \/ RenameAtRest /\ AddMessage
    \/ RenameBegin
    \/ FileRead
    \/ FileTruncate
    \/ FileDump
    \/ FileMove
    \/ DbUpdateSessions
    \/ DbUpdateMessages
    \/ DbCommit
    \/ DbError
    \/ RenameEnd
    \/ Crash

SpecRename == InitRename /\ [][NextRename]_vars

\* C17: in the JSON-file backend a crash at any point inside rename_session
\* leaves the files uncorrupted: after the crash every session file X.json
\* holds a complete session whose embedded session_id is X.
C17_CrashLeavesFilesIntact ==
    rn.pc = "crashed" =>
        \A x \in DOMAIN fs.files :
            /\ fs.files[x] # Truncated
            /\ fs.files[x].session_id = x

\* C18: in the SQLite backend, when rename_session fails after the update of
\* the sessions table and before the commit, the transaction is rolled back:
\* rename_session returns False and both tables are as before the call, so
\* they refer only to the original id.
C18_ErrorStep ==
    (rn.pc \in {"update_messages", "commit"} /\ rn'.pc = "returned") =>
        /\ rn'.ret = Some(FALSE)
        /\ db' = db
        /\ rn.new \notin DOMAIN db'.sessions
        /\ rn.old \in DOMAIN db.sessions => rn.old \in DOMAIN db'.sessions
        /\ Len(DbRowsOf(db'.messages, rn.old)) = Len(DbRowsOf(db.messages, rn.old))

C18_FailedRenameRollsBack == [][C18_ErrorStep]_vars

C18_Witness ==
    /\ rn.pc = "returned"
    /\ rn.backend = "db"
    /\ rn.ret = Some(FALSE)
    /\ rn.raised_at = "update_messages"
    /\ rn.old \in DOMAIN db.sessions
    /\ rn.new \notin DOMAIN db.sessions
    /\ Len(DbRowsOf(db.messages, rn.old)) = 2

----------------------------------------------------------------------------
(* memory.py: create_session and add_message when the write to the backend *)
(* fails (the database is locked or read-only, the directory is not        *)
(* writable).  _save_session_to_db, _save_session_to_file and              *)
(* _add_message_to_db catch the exception and log it; nothing is stored.   *)

\* create_session whose _save_session_to_db / _save_session_to_file failed
create_session_unsaved(m, sid_opt, t) ==
    LET session == Session(NewSessionId(sid_opt, t), t)
    IN  Result([m EXCEPT !.current = Some(session)], Some(session))

\* add_message whose _add_message_to_db / _save_session_to_file failed
add_message_unsaved(m, role, content, sid_opt, t) ==
    LET resolved == ResolveSessionId(m.current, sid_opt)
        message  == Message(role, content, t)
    IN  IF NoActiveSession(resolved) THEN Result(m, None)
        ELSE Result([m EXCEPT !.current = AppendToCurrent(m.current, resolved[1], message)],
                    Some(message))

FailedCall(op, args, rdb, rfile, t) ==
    /\ \E r1 \in {rdb}, r2 \in {rfile} :
        /\ db' = r1.st
        /\ fs' = r2.st
        /\ last' = [op |-> op, args |-> args, failed |-> TRUE,
                    db |-> r1.ret, file |-> r2.ret]
    /\ now' = t
    /\ UNCHANGED <<chatVars, ragVars, useVars>>

CreateSessionWriteFails ==
    /\ now < MaxClock
    /\ \E sid_opt \in OptSessionIds :
        FailedCall("create_session", <<sid_opt>>,
                   create_session_unsaved(db, sid_opt, now + 1),
                   create_session_unsaved(fs, sid_opt, now + 1), now + 1)

AddMessageWriteFails ==
    /\ now < MaxClock
    /\ \E role \in Roles, content \in Contents, sid_opt \in OptSessionIds :
        /\ ~NoActiveSession(ResolveSessionId(db.current, sid_opt))
        /\ LET sid == ResolveSessionId(db.current, sid_opt)[1]
           IN  sid \in DOMAIN db.sessions /\ sid \in DOMAIN fs.files
        /\ FailedCall("add_message", <<role, content, sid_opt>>,
                      add_message_unsaved(db, role, content, sid_opt, now + 1),
                      add_message_unsaved(fs, role, content, sid_opt, now + 1), now + 1)

InitFault ==
    /\ MemInit
    /\ ChatIdle
    /\ RagIdle
    /\ UseIdle

NextFault ==
    \/ CreateSession
    \/ AddMessage
    \/ CreateSessionWriteFails
    \/ AddMessageWriteFails

SpecFault == InitFault /\ [][NextFault]_vars

\* C25: when the backend write of create_session or add_message fails, the
\* operation reports the failure (it returns no session / no message) and the
\* in-memory current session is not changed.
C25_FailStep ==
    ("failed" \in DOMAIN last') =>
        /\ last'.db = None
        /\ last'.file = None
        /\ db'.current = db.current
        /\ fs'.current = fs.current

C25_WriteFailureReported == [][C25_FailStep]_vars

----------------------------------------------------------------------------
(* The three components in one process.  The process starts on the data an *)
(* earlier run left behind: memory.db / the session files hold a session   *)
(* with a message, the persistent collection holds the chunks of a         *)
(* document; MemoryManager.__init__ has no current session.  The process   *)
(* then works with the store, with the index, or runs chat().              *)

StoredDb ==
    LET created == create_session_db([sessions |-> <<>>, messages |-> <<>>, current |-> None],
                                     Some(<<"a">>), 1).st
        added   == add_message_db(created, "user", "hi", None, 2).st
    IN  [added EXCEPT !.current = None]

StoredFiles ==
    LET created == create_session_file([files |-> <<>>, current |-> None], Some(<<"a">>), 1).st
        added   == add_message_file(created, "user", "hi", None, 2).st
    IN  [added EXCEPT !.current = None]

StoredCollection ==
    add_documents(<<>>, TRUE, FALSE,
                  <<[content |-> <<"t1", "t2">>, source |-> "note.txt"]>>, TRUE, {}).coll

InitFrame ==
    /\ db = StoredDb
    /\ fs = StoredFiles
    /\ now = 2
    /\ last = [op |-> "init", args |-> <<>>, db |-> None, file |-> None]
    /\ collection = StoredCollection
    /\ embeddings \in BOOLEAN
    /\ add_rejects_existing \in BOOLEAN
    /\ rag_last = [op |-> "init"]
    /\ ChatInit
    /\ UseIdle

StoreUntouched == last.op = "init"
IndexUntouched == rag_last.op = "init"
ChatUntouched == started = 0 /\ clock = StartTime

NextFrame ==
    \/ IndexUntouched /\ ChatUntouched /\ Next
    \/ StoreUntouched /\ ChatUntouched /\ NextRag
    \/ StoreUntouched /\ IndexUntouched /\ NextChatSeq

SpecFrame == InitFrame /\ [][NextFrame]_vars

\* C27: chat() changes neither the session store nor the retrieval index;
\* add_documents and query leave every session and message unchanged; every
\* MemoryManager operation leaves the retrieval index unchanged.
C27_Step ==
    /\ (\/ \E c \in Callers, message \in ChatMessages : ChatCall(c, message)
        \/ \E c \in Callers : ChatStep(c)) =>
            /\ db' = db
            /\ fs' = fs
            /\ collection' = collection
    \* add_documents and query leave their call in rag_last
    /\ (rag_last' # rag_last /\ rag_last'.op \in {"add_documents", "query"}) =>
            /\ db' = db
            /\ fs' = fs
    \* every MemoryManager operation advances the store's clock
    /\ now' # now => collection' = collection

C27_ComponentsDisjoint == [][C27_Step]_vars

C27_Witness ==
    /\ last.op = "clear_all"
    /\ db.sessions = <<>>
    /\ fs.files = <<>>
    /\ collection = StoredCollection
    /\ collection # <<>>

\* C30: messages are append-only.  add_message on a stored session A appends
\* exactly one message at the end of A's persisted list, leaves A's earlier
\* messages and their order unchanged, and leaves every other session's
\* messages unchanged; only clear_session_messages, delete_session and
\* clear_all ever remove a message from the store.
C30_StoredDb(m) ==
    UNION {{PersistedDb(m, sid)[i] : i \in 1..Len(PersistedDb(m, sid))} :
            sid \in DOMAIN m.sessions}

C30_StoredFile(m) ==
    UNION {{PersistedFile(m, sid)[i] : i \in 1..Len(PersistedFile(m, sid))} :
            sid \in DOMAIN m.files}

C30_Appended(before, after, role, content) ==
    /\ Len(after) = Len(before) + 1
    /\ SubSeq(after, 1, Len(before)) = before
    /\ after[Len(after)].role = role
    /\ after[Len(after)].content = content

C30_Step ==
    now' # now =>
        /\ last'.op = "add_message" =>
            LET role    == last'.args[1]
                content == last'.args[2]
                in_db   == ResolveSessionId(db.current, last'.args[3])
                in_file == ResolveSessionId(fs.current, last'.args[3])
            IN  /\ (~NoActiveSession(in_db) /\ in_db[1] \in DOMAIN db.sessions) =>
                    /\ C30_Appended(PersistedDb(db, in_db[1]), PersistedDb(db', in_db[1]),
                                    role, content)
                    /\ \A other \in DOMAIN db.sessions \ {in_db[1]} :
                            PersistedDb(db', other) = PersistedDb(db, other)
                /\ (~NoActiveSession(in_file) /\ in_file[1] \in DOMAIN fs.files) =>
                    /\ C30_Appended(PersistedFile(fs, in_file[1]), PersistedFile(fs', in_file[1]),
                                    role, content)
                    /\ \A other \in DOMAIN fs.files \ {in_file[1]} :
                            PersistedFile(fs', other) = PersistedFile(fs, other)
        /\ last'.op \notin {"clear_session_messages", "delete_session", "clear_all"} =>
            /\ C30_StoredDb(db) \subseteq C30_StoredDb(db')
            /\ C30_StoredFile(fs) \subseteq C30_StoredFile(fs')

C30_MessagesAppendOnly == [][C30_Step]_vars

----------------------------------------------------------------------------
(* cli.py: the interactive loop on its session, with a document imported   *)
(* into the session by chatbot.import_document_for_chat.                   *)

MaxTurns == 6        \* chat turns of the loop in one run

\* memory.get_conversation_history(session.session_id, limit=10)
HistoryLimit == 10

\* f"Document: {Path(file_path).name}\n{content}"
DocumentContent == "Document: note.txt"

HasDocument(messages) == \E i \in 1..Len(messages) : messages[i].role = "document_context"

\* the loop's session: memory.create_session() when the loop starts
LoopStart ==
    /\ db.current = None
    /\ fs.current = None
    /\ CreateSession

\* import_document_for_chat(file_path, session_id = session.session_id)
ImportDocument ==
    /\ db.current # None
    /\ fs.current # None
    /\ ~HasDocument(PersistedDb(db, db.current[1].session_id))
    /\ \E r1 \in {add_message_db(db, "document_context", DocumentContent,
                                 Some(db.current[1].session_id), now + 1)},
          r2 \in {add_message_file(fs, "document_context", DocumentContent,
                                   Some(fs.current[1].session_id), now + 1)} :
        /\ db' = r1.st
        /\ fs' = r2.st
        /\ last' = [op |-> "add_message",
                    args |-> <<"document_context", DocumentContent,
                               Some(db.current[1].session_id)>>,
                    db |-> r1.ret, file |-> r2.ret]
    /\ now' = now + 1
    /\ UNCHANGED <<chatVars, ragVars, useVars>>

\* one turn of the loop: the history is read, the user message stored, chat()
\* builds the prompt and answers, the assistant message is stored
LoopTurn ==
    /\ db.current # None
    /\ fs.current # None
    /\ Len(PersistedDb(db, db.current[1].session_id)) < 2 * MaxTurns
    /\ \E user_input \in Contents, response \in Contents :
        LET sid == db.current[1].session_id
        IN  \E hdb \in {get_conversation_history_db(db, Some(sid), Some(HistoryLimit))},
               hfile \in {get_conversation_history_file(fs, Some(sid), Some(HistoryLimit))},
               r1 \in {add_message_db(add_message_db(db, "user", user_input, Some(sid),
                                                     now + 1).st,
                                      "assistant", response, Some(sid), now + 2)},
               r2 \in {add_message_file(add_message_file(fs, "user", user_input, Some(sid),
                                                         now + 1).st,
                                        "assistant", response, Some(sid), now + 2)} :
                /\ db' = r1.st
                /\ fs' = r2.st
                /\ last' = [op |-> "add_message", args |-> <<"assistant", response, Some(sid)>>,
                            db |-> r1.ret, file |-> r2.ret]
                /\ turn' = [pc |-> "answered", kind |-> "interactive", sid |-> sid,
                            message |-> user_input,
                            imported_db |-> HasDocument(PersistedDb(db, sid)),
                            imported_file |-> HasDocument(PersistedFile(fs, sid)),
                            history_db |-> hdb,
                            history_file |-> hfile,
                            parts_db |-> prompt_parts(<<user_input>>, None, None, hdb, None),
                            parts_file |-> prompt_parts(<<user_input>>, None, None, hfile, None)]
    /\ now' = now + 2
    /\ UNCHANGED <<prompt, rn, chatVars, ragVars>>

InitLoop ==
    /\ MemInit
    /\ ChatIdle
    /\ RagIdle
    /\ UseIdle

NextLoop ==
    \/ LoopStart
    \/ ImportDocument
    \/ LoopTurn

SpecLoop == InitLoop /\ [][NextLoop]_vars

\* C38: a document imported into a session stays in the context of every later
\* turn of that session: for any number of user/assistant messages added
\* after the import, the history the chat loop passes to chat() contains the
\* document_context message and the assembled prompt contains the document.
C38_InContext(history, parts) ==
    /\ \E i \in 1..Len(history) : history[i] = <<"document_context", DocumentContent>>
    /\ \E i \in 1..Len(parts) :
            parts[i] = <<"## Imported Document Context:\n", DocumentContent>>

C38_DocumentStaysInContext ==
    turn.pc = "answered" =>
        /\ turn.imported_db => C38_InContext(turn.history_db, turn.parts_db)
        /\ turn.imported_file => C38_InContext(turn.history_file, turn.parts_file)

\* C31: delete_session(id) removes the session and all of its messages in
\* both backends: afterwards get_session(id) returns None, get_all_sessions()
\* has no entry for id, every other session is unchanged, and a later
\* create_session(id) loads with zero messages.
C31_DeleteStep ==
    (now' # now /\ last'.op = "delete_session") =>
        LET sid == last'.args[1]
        IN  /\ get_session_db(db', sid) = None
            /\ get_session_file(fs', sid) = None
            /\ \A listed \in _get_all_sessions_from_db(db') :
                    \A i \in 1..Len(listed) : listed[i].session_id # sid
            /\ \A listed \in _get_all_sessions_from_files(fs') :
                    \A i \in 1..Len(listed) : listed[i].session_id # sid
            /\ DOMAIN db'.sessions = (DOMAIN db.sessions) \ {sid}
            /\ DOMAIN fs'.files = (DOMAIN fs.files) \ {sid}
            /\ \A other \in DOMAIN db'.sessions :
                    get_session_db(db', other) = get_session_db(db, other)
            /\ \A other \in DOMAIN fs'.files :
                    get_session_file(fs', other) = get_session_file(fs, other)
            /\ MessagesDb(create_session_db(db', Some(sid), now' + 1).st, sid) = <<>>
            /\ MessagesFile(create_session_file(fs', Some(sid), now' + 1).st, sid) = <<>>

C31_DeleteRemovesSession == [][C31_DeleteStep]_vars

C31_Witness ==
    /\ last.op = "delete_session"
    /\ last.args = <<<<"a">>>>
    /\ <<"a">> \notin DOMAIN db.sessions
    /\ <<"a">> \notin DOMAIN fs.files
    /\ <<"b">> \in DOMAIN db.sessions
    /\ <<"b">> \in DOMAIN fs.files
    /\ Len(MessagesDb(db, <<"b">>)) = 1
    /\ Len(MessagesFile(fs, <<"b">>)) = 1

\* C32: clear_all() empties the store in both backends: afterwards
\* get_session returns None for every id that existed before, whatever form
\* the id has, get_all_sessions() is empty and the current session is None.
C32_ClearAllStep ==
    (now' # now /\ last'.op = "clear_all") =>
        /\ \A sid \in DOMAIN db.sessions : get_session_db(db', sid) = None
        /\ \A sid \in DOMAIN fs.files : get_session_file(fs', sid) = None
        /\ _get_all_sessions_from_db(db') = {<<>>}
        /\ _get_all_sessions_from_files(fs') = {<<>>}
        /\ db'.current = None
        /\ fs'.current = None

C32_ClearAllEmptiesStore == [][C32_ClearAllStep]_vars

\* C33: rename_session with an empty or whitespace-only new id returns False
\* and leaves the store and the current session unchanged, in both backends.
C33_BlankIds == {sid \in NewSessionIds : \A i \in 1..Len(sid) : sid[i] = " "}

C33_RenameStep ==
    (now' # now /\ last'.op = "rename_session" /\ last'.args[2] \in C33_BlankIds) =>
        /\ last'.db = FALSE
        /\ last'.file = FALSE
        /\ db' = db
        /\ fs' = fs

C33_BlankRenameRejected == [][C33_RenameStep]_vars

C33_Witness ==
    /\ last.op = "rename_session"
    /\ last.args = <<<<"a">>, <<" ">>>>
    /\ last.db = FALSE
    /\ last.file = FALSE
    /\ <<"a">> \in DOMAIN db.sessions
    /\ <<"a">> \in DOMAIN fs.files
    /\ db.current # None
    /\ db.current[1].session_id = <<"a">>
    /\ Len(MessagesDb(db, <<"a">>)) = 1

\* C34: cache coherence of the current session: if current_session is not
\* None, its session_id and its message list (roles and contents, in order)
\* equal those get_session(current_session.session_id) returns from the backend.
C34_RolesAndContents(messages) ==
    [i \in 1..Len(messages) |-> <<messages[i].role, messages[i].content>>]

C34_Coherent(current, loaded) ==
    current # None =>
        /\ loaded # None
        /\ loaded[1].session_id = current[1].session_id
        /\ C34_RolesAndContents(loaded[1].messages) = C34_RolesAndContents(current[1].messages)

C34_CurrentSessionCoherent ==
    /\ db.current # None => C34_Coherent(db.current, get_session_db(db, db.current[1].session_id))
    /\ fs.current # None => C34_Coherent(fs.current, get_session_file(fs, fs.current[1].session_id))

\* C35: in every reachable state current_session is None or refers to a
\* session id that exists in the backend; delete_session and clear_all reset
\* it when they remove it, and a successful rename_session of the current
\* session moves it to the new id.
C35_CurrentStored ==
    /\ db.current # None => db.current[1].session_id \in DOMAIN db.sessions
    /\ fs.current # None => fs.current[1].session_id \in DOMAIN fs.files

C35_Step ==
    now' # now =>
        /\ (last'.op = "delete_session" /\ db.current # None
                /\ db.current[1].session_id = last'.args[1]) => db'.current = None
        /\ (last'.op = "delete_session" /\ fs.current # None
                /\ fs.current[1].session_id = last'.args[1]) => fs'.current = None
        /\ last'.op = "clear_all" => (db'.current = None /\ fs'.current = None)
        /\ (last'.op = "rename_session" /\ db.current # None
                /\ db.current[1].session_id = last'.args[1] /\ last'.db = TRUE) =>
                    /\ db'.current # None
                    /\ db'.current[1].session_id = last'.args[2]
        /\ (last'.op = "rename_session" /\ fs.current # None
                /\ fs.current[1].session_id = last'.args[1] /\ last'.file = TRUE) =>
                    /\ fs'.current # None
                    /\ fs'.current[1].session_id = last'.args[2]

C35_CurrentSessionExists == []C35_CurrentStored /\ [][C35_Step]_vars

C35_Witness ==
    /\ last.op = "rename_session"
    /\ last.args = <<<<"a">>, <<"b">>>>
    /\ last.db = TRUE
    /\ last.file = TRUE
    /\ db.current # None
    /\ db.current[1].session_id = <<"b">>
    /\ fs.current # None
    /\ fs.current[1].session_id = <<"b">>
    /\ Len(db.current[1].messages) = 1

\* C36: two create_session() calls without an id always yield two distinct
\* sessions: the second call never replaces the first session's record and
\* never inherits the first session's messages, also when both calls happen
\* within the same clock second.
C36_CreateStep ==
    (now' # now /\ last'.op = "create_session" /\ last'.args[1] = None) =>
        /\ last'.db.session_id \notin DOMAIN db.sessions
        /\ last'.file.session_id \notin DOMAIN fs.files
        /\ MessagesDb(db', last'.db.session_id) = <<>>
        /\ MessagesFile(fs', last'.file.session_id) = <<>>

C36_AutoIdsDistinct == [][C36_CreateStep]_vars

\* C37: every session that is stored appears exactly once in
\* get_all_sessions(), in both backends and for every form of session id, with
\* message_count equal to the number of messages get_session returns for it.
C37_ListedOnce(listed, sid, count) ==
    /\ Cardinality({i \in 1..Len(listed) : listed[i].session_id = sid}) = 1
    /\ \A i \in 1..Len(listed) :
            listed[i].session_id = sid => listed[i].message_count = count

C37_AllSessionsListed ==
    /\ \A listed \in _get_all_sessions_from_db(db) :
            \A sid \in DOMAIN db.sessions :
                C37_ListedOnce(listed, sid, Len(MessagesDb(db, sid)))
    /\ \A listed \in _get_all_sessions_from_files(fs) :
            \A sid \in DOMAIN fs.files :
                C37_ListedOnce(listed, sid, Len(MessagesFile(fs, sid)))

\* C39: get_conversation_history(id, limit=0) returns the empty list (exactly
\* the last 0 messages) for every session, whatever number of messages it holds.
C39_LimitZeroIsEmpty ==
    /\ \A sid \in DOMAIN db.sessions :
            get_conversation_history_db(db, Some(sid), Some(0)) = <<>>
    /\ \A sid \in DOMAIN fs.files :
            get_conversation_history_file(fs, Some(sid), Some(0)) = <<>>

====
